---- MODULE Spec2Model ----
(***************************************************************************)
(* Hybrid game recommender: HybridRecommender and its nested               *)
(* _ContentBasedRecommender (src/recommender/hybrid_recommender.py), the   *)
(* Evaluator batch loop (src/evaluator/evaluator.py), the job table        *)
(* (src/db) and the serving layer's model handle (src/api.py).             *)
(*                                                                         *)
(* Library results the repository does not compute itself are abstracted:  *)
(*  - TF-IDF + cosine similarity: every genres field of the bounded        *)
(*    catalogs is a single token or missing, for which the TF-IDF row is   *)
(*    a unit vector on that token (or the zero vector) and the cosine      *)
(*    similarity is exactly 1 or 0; fitting a catalog without any token    *)
(*    raises (empty vocabulary).                                           *)
(*  - NMF: fitted with n_components = 1; the fitted factors are drawn      *)
(*    from a bounded integer range when fit runs and are then fixed.  The  *)
(*    serving layer and the evaluator, whose behaviour does not depend on  *)
(*    the factor values, use one fixed outcome per matrix.                 *)
(*  - np.argsort: arrays of at most 16 elements are sorted by insertion    *)
(*    sort, which is stable; every array of this model is that small.      *)
(*  - floating point: the metrics of the Evaluator are kept as quotients   *)
(*    of integers (novelty as the two products under its logarithm) and    *)
(*    compared by cross-multiplication.                                    *)
(* Optional values (None / a missing attribute) are sequences of length 0, *)
(* a present value v is <<v>>.  Row labels and numpy indices are 0-based   *)
(* as in the source; TLA+ sequences are 1-based.                           *)
(***************************************************************************)
EXTENDS Integers, Sequences, FiniteSets, TLC

(* ------------------------------ bounds -------------------------------- *)
\* n of a request ranges over -1 .. MaxN
MaxN == 2
\* NMF factor entries range over 0 .. MaxFactor
MaxFactor == 1
\* at most MaxRatings rows in the ratings table
MaxRatings == 3
\* at most MaxJobs jobs are ever created
MaxJobs == 2
\* the process is restarted at most MaxRestarts times
MaxRestarts == 1
\* max_users of an evaluation ranges over 1 .. MaxUsers
MaxUsers == 2
\* progress_step of an evaluation ranges over 0 .. MaxStep
MaxStep == 2

\* the id universes of the two input tables
UserIds == {1, 2}
GameIds == {1, 2, 3}
Titles == {"A", "B", "C"}
\* genres as read from the CSV: a missing field is read as NaN
Genres == {"NaN", "rpg"}
\* the user factor of a one-component model, normalised: a positive scale of a
\* user's scores changes neither their order nor their ties
UserFactors == {1}
\* 1.5 and 2.5, in tenths: the two base values of the implicit rating
RatingValues == {15, 25}

None == <<>>
Some(x) == <<x>>

(* --------------------------- generic helpers -------------------------- *)
Max(a, b) == IF a > b THEN a ELSE b
Min(a, b) == IF a < b THEN a ELSE b

\* Python a[start:] for any integer start
SliceFrom(a, start) ==
    LET len == Len(a)
        s == IF start < 0 THEN Max(len + start, 0) ELSE Min(start, len)
    IN [k \in 1..(len - s) |-> a[s + k]]

\* Python a[:stop] for any integer stop
SliceTo(a, stop) ==
    LET len == Len(a)
        e == IF stop < 0 THEN Max(len + stop, 0) ELSE Min(stop, len)
    IN [k \in 1..e |-> a[k]]

\* Python a[::-1]
Reversed(a) == [k \in 1..Len(a) |-> a[Len(a) + 1 - k]]

\* the elements of a that satisfy Keep, in order
RECURSIVE FilterSeq(_, _)
FilterSeq(a, keep) ==
    IF a = <<>> THEN <<>>
    ELSE IF Head(a) \in keep THEN <<Head(a)>> \o FilterSeq(Tail(a), keep)
    ELSE FilterSeq(Tail(a), keep)

Range(a) == {a[k] : k \in 1..Len(a)}

\* list(dict.fromkeys(a)) and pandas unique(): first occurrences, in order
RECURSIVE DictFromKeys(_)
DictFromKeys(a) ==
    IF a = <<>> THEN <<>>
    ELSE LET init == DictFromKeys(SliceTo(a, Len(a) - 1))
             last == a[Len(a)]
         IN IF last \in Range(init) THEN init ELSE Append(init, last)

NoRepeat(a) == \A i, j \in 1..Len(a) : i # j => a[i] # a[j]

\* np.argsort(v): the 0-based indices of v in ascending order of value (stable)
ArgSort(v) ==
    LET rank(i) == Cardinality({j \in 1..Len(v) :
                       v[j] < v[i] \/ (v[j] = v[i] /\ j < i)})
    IN [k \in 1..Len(v) |-> (CHOOSE i \in 1..Len(v) : rank(i) = k - 1) - 1]

(* ------------------- _ContentBasedRecommender ------------------------- *)
\* __init__: a copy of the catalog; tfidf_matrix and game_indices do not exist yet
ContentBasedRecommender(games) ==
    [games_df |-> games, tfidf_matrix |-> None, game_indices |-> None]

\* TfidfVectorizer.fit_transform on one document of at most one token: the
\* support of its (unit or zero) row vector
TfidfRow(doc) == IF doc = "" THEN {} ELSE {doc}

\* cosine_similarity of two such rows
CosineSimilarity(x, y) == IF x \cap y # {} THEN 1 ELSE 0

\* pandas Series.drop_duplicates(): drops the entries whose VALUE occurred before
DropDuplicates(series) ==
    LET firsts == {k \in 1..Len(series) :
                     \A j \in 1..(k - 1) : series[j].value # series[k].value}
        idxs == FilterSeq([k \in 1..Len(series) |-> k], firsts)
    IN [k \in 1..Len(idxs) |-> series[idxs[k]]]

\* TfidfVectorizer.fit_transform raises ValueError (empty vocabulary) when no
\* document has a token: every genres field is missing
ContentFitRaises(cr) ==
    \A i \in 1..Len(cr.games_df) : cr.games_df[i].genres \in {"NaN", ""}

\* _ContentBasedRecommender.fit; when fit_transform raises, the genres column
\* was already filled and neither tfidf_matrix nor game_indices is assigned
ContentFit(cr) ==
    LET g == [i \in 1..Len(cr.games_df) |->
                [cr.games_df[i] EXCEPT !.genres = IF @ = "NaN" THEN "" ELSE @]]
    IN IF ContentFitRaises(cr)
       THEN [cr EXCEPT !.games_df = g]
       ELSE [games_df |-> g,
             tfidf_matrix |-> Some([i \in 1..Len(g) |-> TfidfRow(g[i].genres)]),
             game_indices |-> Some(DropDuplicates(
                 [i \in 1..Len(g) |-> [label |-> g[i].title, value |-> i - 1]]))]

\* self.game_indices[title]: the row labels stored under the title, in order
\* (one label, or several when the title is not unique)
Lookup(game_indices, title) ==
    LET hits == {k \in 1..Len(game_indices) : game_indices[k].label = title}
        ks == FilterSeq([k \in 1..Len(game_indices) |-> k], hits)
    IN [k \in 1..Len(ks) |-> game_indices[ks[k]].value]

\* cosine_similarity(tfidf[idx], tfidf).flatten() with sim_scores[idx] = 0:
\* one row of similarities per looked-up label, laid end to end
SimScores(cr, idx) ==
    LET m == cr.tfidf_matrix[1]
        N == Len(m)
    IN [p \in 1..(Len(idx) * N) |->
          LET r == idx[((p - 1) \div N) + 1] + 1
              c == ((p - 1) % N) + 1
          IN IF (p - 1) \in Range(idx) THEN 0
             ELSE CosineSimilarity(m[r], m[c])]

\* _ContentBasedRecommender.recommend(title, n), for an instance that was fitted
ContentRecommend(cr, title, n) ==
    IF Lookup(cr.game_indices[1], title) = <<>> THEN <<>>
    ELSE LET idx == Lookup(cr.game_indices[1], title)
             sim_scores == SimScores(cr, idx)
             top == Reversed(SliceFrom(ArgSort(sim_scores), -n))
             top_indices == FilterSeq(top, 0..(Len(cr.games_df) - 1))
         IN [k \in 1..Len(top_indices) |-> cr.games_df[top_indices[k] + 1].title]

(* ------------------------- HybridRecommender -------------------------- *)
\* __init__: both CSV tables read, nothing fitted
HybridRecommender(games, ratings) ==
    [games_df |-> games, ratings_df |-> ratings,
     content_recommender |-> ContentBasedRecommender(games),
     nmf_model |-> None, user_item_matrix |-> None,
     user_mapper |-> None, game_mapper |-> None, game_inv_mapper |-> None]

\* ratings_df[col].unique(): the distinct values in order of first appearance
Unique(ratings, col) ==
    DictFromKeys([k \in 1..Len(ratings) |-> ratings[k][col]])

\* {id: i for i, id in enumerate(ids)}
Mapper(ids) == [x \in Range(ids) |-> (CHOOSE k \in 1..Len(ids) : ids[k] = x) - 1]

\* list(mapper.keys()): the keys in insertion order, i.e. by index
Keys(mapper) ==
    [k \in 1..Cardinality(DOMAIN mapper) |->
        CHOOSE x \in DOMAIN mapper : mapper[x] = k - 1]

\* csr_matrix((ratings, (user_index, game_index)), shape): duplicates add up
RECURSIVE SumRatings(_, _, _)
SumRatings(ratings, u, g) ==
    IF ratings = <<>> THEN 0
    ELSE (IF Head(ratings).userId = u /\ Head(ratings).gameId = g
          THEN Head(ratings).rating ELSE 0) + SumRatings(Tail(ratings), u, g)

UserItemMatrix(ratings, user_ids, game_ids) ==
    [i \in 0..(Len(user_ids) - 1) |->
        [j \in 0..(Len(game_ids) - 1) |->
            SumRatings(ratings, user_ids[i + 1], game_ids[j + 1])]]

\* what NMF(n_components = 1).fit(matrix) may leave behind: the item factors
\* components_ and, per row vector, the user factor transform returns for it
NmfModels(matrix) ==
    LET rows == {matrix[i] : i \in DOMAIN matrix}
        cols == IF DOMAIN matrix = {} THEN {} ELSE DOMAIN matrix[0]
    IN [components_ : [cols -> 0..MaxFactor], transform : [rows -> UserFactors]]

\* the NMF object as constructed, before (or without) a successful fit
UnfittedNmf == [components_ |-> <<>>, transform |-> <<>>]

\* fit raises in its content part, before the factor part is reached
FitRaisesInContent(self, refit_content) ==
    refit_content /\ ContentFitRaises(self.content_recommender)

\* fit whose content part starts from a fresh instance: the factor model,
\* the mappers and the matrix are dropped
FitDroppingFactors(self, refit_content, refit_nmf, nmf) ==
    LET s0 == IF refit_content
              THEN [HybridRecommender(self.games_df, self.ratings_df)
                       EXCEPT !.content_recommender = ContentFit(self.content_recommender)]
              ELSE self
        user_ids == Unique(self.ratings_df, "userId")
        game_ids == Unique(self.ratings_df, "gameId")
    IN IF refit_nmf /\ ~(refit_content /\ ContentFitRaises(self.content_recommender))
       THEN [s0 EXCEPT !.user_mapper = Some(Mapper(user_ids)),
                       !.game_mapper = Some(Mapper(game_ids)),
                       !.game_inv_mapper = Some([i \in 0..(Len(game_ids) - 1) |-> game_ids[i + 1]]),
                       !.user_item_matrix = Some(UserItemMatrix(self.ratings_df, user_ids, game_ids)),
                       !.nmf_model = Some(nmf)]
       ELSE s0

\* HybridRecommender.fit(refit_content, refit_nmf); nmf is the fitted NMF
Fit(self, refit_content, refit_nmf, nmf) ==
    LET s1 == IF refit_content
              THEN [self EXCEPT !.content_recommender = ContentFit(@)]
              ELSE self
        user_ids == Unique(self.ratings_df, "userId")
        game_ids == Unique(self.ratings_df, "gameId")
    IN IF refit_nmf /\ ~FitRaisesInContent(self, refit_content)
       THEN [s1 EXCEPT !.user_mapper = Some(Mapper(user_ids)),
                       !.game_mapper = Some(Mapper(game_ids)),
                       !.game_inv_mapper = Some([i \in 0..(Len(game_ids) - 1) |-> game_ids[i + 1]]),
                       !.user_item_matrix = Some(UserItemMatrix(self.ratings_df, user_ids, game_ids)),
                       !.nmf_model = Some(nmf)]
       ELSE s1

\* scores_series.nlargest(n).index: the n labels with the largest values, largest
\* first, ties in their original order; empty for n <= 0
NLargest(labels, values, n) ==
    LET rank(i) == Cardinality({j \in 1..Len(values) :
                       values[j] > values[i] \/ (values[j] = values[i] /\ j < i)})
        byRank == [k \in 1..Len(values) |-> CHOOSE i \in 1..Len(values) : rank(i) = k - 1]
    IN IF n <= 0 THEN <<>>
       ELSE [k \in 1..Min(n, Len(values)) |-> labels[byRank[k]]]

\* the predicted score of every game of game_mapper for a known user:
\* nmf_model.transform(user_vector) @ nmf_model.components_
Scores(self, user_id) ==
    LET user_idx == self.user_mapper[1][user_id]
        user_vector == self.user_item_matrix[1][user_idx]
        user_P == self.nmf_model[1].transform[user_vector]
        item_Q == self.nmf_model[1].components_
    IN [j \in DOMAIN item_Q |-> user_P * item_Q[j]]

\* ratings_df[ratings_df["userId"] == user_id]["gameId"]
RatedGames(self, user_id) ==
    {self.ratings_df[k].gameId : k \in {k \in 1..Len(self.ratings_df) :
                                          self.ratings_df[k].userId = user_id}}

\* the index of scores_series after the rated games are dropped
Unrated(self, user_id) ==
    FilterSeq(Keys(self.game_mapper[1]),
              DOMAIN self.game_mapper[1] \ RatedGames(self, user_id))

\* top_game_ids of recommend
TopGameIds(self, user_id, n) ==
    LET scores == Scores(self, user_id)
        labels == Unrated(self, user_id)
        values == [k \in 1..Len(labels) |-> scores[self.game_mapper[1][labels[k]]]]
    IN NLargest(labels, values, n)

\* collaborative_recs of recommend
CollaborativeRecs(self, user_id, n) ==
    IF self.nmf_model # None /\ user_id \in DOMAIN self.user_mapper[1]
    THEN LET top == Range(TopGameIds(self, user_id, n))
             rows == FilterSeq([k \in 1..Len(self.games_df) |-> k],
                               {k \in 1..Len(self.games_df) : self.games_df[k].gameId \in top})
         IN [k \in 1..Len(rows) |-> self.games_df[rows[k]].title]
    ELSE <<>>

\* recommend with the two lists only concatenated
CombinedNoDedup(content_recs, collaborative_recs) ==
    content_recs \o collaborative_recs

\* combined of recommend
Combined(content_recs, collaborative_recs) ==
    DictFromKeys(content_recs \o collaborative_recs)

\* recommend returning combined without the final [:n]
BlendNoTruncate(content_recs, collaborative_recs, n) ==
    Combined(content_recs, collaborative_recs)

\* the return value of recommend, from the two lists: combined[:n]
Blend(content_recs, collaborative_recs, n) ==
    SliceTo(Combined(content_recs, collaborative_recs), n)

\* HybridRecommender.recommend(user_id, seed_title, n), content part fitted
Recommend(self, user_id, seed_title, n) ==
    Blend(ContentRecommend(self.content_recommender, seed_title, n),
          CollaborativeRecs(self, user_id, n), n)

\* recommend raises AttributeError when the content part was never fitted:
\* self.game_indices does not exist
RecommendRaises(self) == self.content_recommender.game_indices = None

\* what one recommend call on self is given and what it builds; a call that
\* raises builds nothing
Call(self, user_id, seed_title, n) ==
    IF RecommendRaises(self)
    THEN [raised |-> TRUE]
    ELSE LET content_recs == ContentRecommend(self.content_recommender, seed_title, n)
             collaborative_recs == CollaborativeRecs(self, user_id, n)
         IN [user_id |-> user_id, seed_title |-> seed_title, n |-> n,
             raised |-> FALSE,
             content_recs |-> content_recs,
             collaborative_recs |-> collaborative_recs,
             result |-> Blend(content_recs, collaborative_recs, n)]

\* save raises AttributeError when the content part was never fitted:
\* self.content_recommender.tfidf_matrix does not exist
SaveRaises(self) == self.content_recommender.tfidf_matrix = None

\* the dict HybridRecommender.save hands to joblib.dump
Dump(self) ==
    [nmf_model |-> self.nmf_model,
     user_mapper |-> self.user_mapper,
     game_mapper |-> self.game_mapper,
     game_inv_mapper |-> self.game_inv_mapper,
     user_item_matrix |-> self.user_item_matrix,
     tfidf_matrix |-> self.content_recommender.tfidf_matrix,
     game_indices |-> self.content_recommender.game_indices,
     games_df |-> self.games_df,
     ratings_df |-> self.ratings_df]

\* load that does not restore the factor model
LoadWithoutNmf(data) ==
    [games_df |-> data.games_df, ratings_df |-> data.ratings_df,
     content_recommender |->
        [ContentBasedRecommender(data.games_df)
            EXCEPT !.tfidf_matrix = data.tfidf_matrix,
                   !.game_indices = data.game_indices],
     nmf_model |-> None,
     user_item_matrix |-> data.user_item_matrix,
     user_mapper |-> data.user_mapper,
     game_mapper |-> data.game_mapper,
     game_inv_mapper |-> data.game_inv_mapper]

\* HybridRecommender.load: the instance rebuilt from what joblib.load returns
Load(data) ==
    [games_df |-> data.games_df, ratings_df |-> data.ratings_df,
     content_recommender |->
        [ContentBasedRecommender(data.games_df)
            EXCEPT !.tfidf_matrix = data.tfidf_matrix,
                   !.game_indices = data.game_indices],
     nmf_model |-> data.nmf_model,
     user_item_matrix |-> data.user_item_matrix,
     user_mapper |-> data.user_mapper,
     game_mapper |-> data.game_mapper,
     game_inv_mapper |-> data.game_inv_mapper]

(* ------------------------------- state -------------------------------- *)
VARIABLES
    rec,        \* the HybridRecommender instance under test
    out,        \* the last recommend call on rec: its arguments and what it built
    artifact,   \* what rec.save wrote to the model path, if anything
    loaded,     \* the instance HybridRecommender.load returned, if any
    out_loaded, \* the same recommend call made on loaded
    up,         \* the API process is running and startup_event has run
    restarts,   \* how often the process was restarted
    app_state_recommender,  \* app.state.recommender: None or a reference
    instances,  \* the HybridRecommender objects of the process, by reference
    files,      \* models/recommender.pkl and the data files
    jobs,       \* the jobs table
    threads,    \* the initialize_model caller of startup and of each training job
    hist,       \* history: which instances were saved or loaded as they are
                \* now, and which thread assigned app.state.recommender last
    response,   \* the last response of GET /recommend
    ev          \* the frame of one Evaluator.generate_all_recommendations call

recVars == <<rec, out>>
persistVars == <<artifact, loaded, out_loaded>>
servingVars == <<up, restarts, app_state_recommender, instances, files, threads,
                 hist, response>>
vars == <<rec, out, artifact, loaded, out_loaded, up, restarts,
          app_state_recommender, instances, files, jobs, threads, hist,
          response, ev>>

(* ------------------------------ inputs -------------------------------- *)
TitleNo == [t \in Titles |-> CASE t = "A" -> 1 [] t = "B" -> 2 [] OTHER -> 3]

\* the games table: gameId i in row i; titles may repeat; up to renaming of
\* titles (a new title is always the next unused one)
Catalogs ==
    UNION {{g \in [1..len -> [gameId : GameIds, title : Titles, genres : Genres]] :
              \A i \in 1..len :
                 /\ g[i].gameId = i
                 /\ TitleNo[g[i].title] <= 1 + Cardinality({g[j].title : j \in 1..(i - 1)})}
           : len \in 1..Cardinality(GameIds)}

\* the ratings table: at most one row per (userId, gameId), rows ordered by user
\* and then game; up to renaming of users (the first row is user 1's)
RatingsTables(values) ==
    UNION {{r \in [1..len -> [userId : UserIds, gameId : GameIds, rating : values]] :
              /\ len > 0 => r[1].userId = 1
              /\ \A i \in 1..(len - 1) :
                    \/ r[i].userId < r[i + 1].userId
                    \/ (r[i].userId = r[i + 1].userId /\ r[i].gameId < r[i + 1].gameId)}
           : len \in 0..MaxRatings}

\* the arguments of a recommend request; "" is the API's default seed_title
Seeds == Titles \cup {""}
Ns == (0 - 1)..MaxN

(* ------------------- the recommender under test ----------------------- *)
\* no API process and no evaluation
NotServing ==
    /\ up = FALSE /\ restarts = 0 /\ app_state_recommender = None
    /\ instances = <<>> /\ files = <<>> /\ threads = <<>>
    /\ hist = <<>> /\ response = None

InitRec ==
    /\ \E g \in Catalogs, r \in RatingsTables({25}) : rec = HybridRecommender(g, r)
    /\ out = None
    /\ artifact = None /\ loaded = None /\ out_loaded = None
    /\ NotServing /\ jobs = <<>> /\ ev = <<>>

\* r.fit(refit_content, refit_nmf), the factor model fitted at most once per
\* instance; the content part raises ValueError on a catalog without any genre
\* token, and NMF.fit raises ValueError on a matrix with no rows, after the
\* content part was refitted in place and the mappers, the matrix and the
\* (still unfitted) NMF object were assigned
FitStep(refit_content, refit_nmf) ==
    /\ artifact = None
    /\ refit_nmf => rec.nmf_model = None
    /\ IF FitRaisesInContent(rec, refit_content)
       THEN rec' = Fit(rec, refit_content, FALSE, None)
       ELSE IF refit_nmf /\ rec.ratings_df = <<>>
       THEN rec' = Fit(rec, refit_content, TRUE, UnfittedNmf)
       ELSE \E nmf \in NmfModels(UserItemMatrix(rec.ratings_df,
                                    Unique(rec.ratings_df, "userId"),
                                    Unique(rec.ratings_df, "gameId"))) :
               rec' = Fit(rec, refit_content, refit_nmf, nmf)

\* a fit call made before any recommend call
RFit(refit_content, refit_nmf) ==
    /\ out = None
    /\ FitStep(refit_content, refit_nmf)
    /\ out' = None
    /\ UNCHANGED <<persistVars, servingVars, jobs, ev>>

\* r.recommend(user_id, seed_title, n): the call this behaviour ends with
RRecommend(user_id, seed_title, n) ==
    /\ out = None
    /\ out' = Some(Call(rec, user_id, seed_title, n))
    /\ UNCHANGED <<rec, artifact, loaded, out_loaded, servingVars, jobs, ev>>

NextRec ==
    \/ \E rc, rn \in BOOLEAN : RFit(rc, rn)
    \/ \E u \in UserIds, s \in Seeds, n \in Ns : RRecommend(u, s, n)

SpecRec == InitRec /\ [][NextRec]_vars

(* --------------------------- fit, call by call ------------------------ *)
\* r.fit(refit_content, refit_nmf), out keeping the call's arguments and the
\* instance as it was when the call was made
FitCall(refit_content, refit_nmf) ==
    /\ FitStep(refit_content, refit_nmf)
    /\ out' = Some([refit_content |-> refit_content, refit_nmf |-> refit_nmf,
                    before |-> rec])
    /\ UNCHANGED <<persistVars, servingVars, jobs, ev>>

NextFit == \E rc, rn \in BOOLEAN : FitCall(rc, rn)

SpecFit == InitRec /\ [][NextFit]_vars

(* --------------------------- save and load ---------------------------- *)
\* r.save(path) of an instance whose content part was fitted
Save ==
    /\ artifact = None
    /\ ~SaveRaises(rec)
    /\ artifact' = Some(Dump(rec))
    /\ UNCHANGED <<rec, out, loaded, out_loaded, servingVars, jobs, ev>>

\* HybridRecommender.load(path) once the artifact exists
LoadArtifact ==
    /\ artifact # None /\ loaded = None
    /\ loaded' = Some(Load(artifact[1]))
    /\ UNCHANGED <<rec, out, artifact, out_loaded, servingVars, jobs, ev>>

\* one probe (user_id, seed_title, n): recommend on r and on the loaded instance
Probe(user_id, seed_title, n) ==
    /\ loaded # None /\ out = None
    /\ out' = Some(Call(rec, user_id, seed_title, n))
    /\ out_loaded' = Some(Call(loaded[1], user_id, seed_title, n))
    /\ UNCHANGED <<rec, artifact, loaded, servingVars, jobs, ev>>

NextPersist ==
    \/ \E rc, rn \in BOOLEAN : RFit(rc, rn)
    \/ Save
    \/ LoadArtifact
    \/ \E u \in UserIds, s \in Seeds, n \in Ns : Probe(u, s, n)

SpecPersist == InitRec /\ [][NextPersist]_vars

(* ---------------------- claims about recommend ------------------------ *)
\* the call recorded in out returned (it did not raise)
Returned == out # None /\ ~out[1].raised

\* the user of the recorded call is known to the factor model
UserKnown ==
    rec.nmf_model # None /\ out[1].user_id \in DOMAIN rec.user_mapper[1]

\* the seed of the recorded call is present in the text index
SeedKnown == Lookup(rec.content_recommender.game_indices[1], out[1].seed_title) # <<>>

\* the number of distinct titles the two lists supply together
Supplied == Cardinality(Range(out[1].content_recs) \cup Range(out[1].collaborative_recs))

\* C1: the list recommend returns contains no title more than once, for every
\* user_id, seed_title and n.
C1_NoDuplicates == Returned => NoRepeat(out[1].result)

\* C1 witness: a call whose two lists, laid end to end, do repeat a title
C1_Witness ==
    /\ Returned
    /\ out[1].result # <<>>
    /\ ~NoRepeat(out[1].content_recs \o out[1].collaborative_recs)

\* C2 as stated: for every integer n the list has at most n titles, and exactly
\* n titles when the two lists together supply at least n distinct titles.
C2_AsStated ==
    Returned => /\ Len(out[1].result) <= out[1].n
                /\ (Supplied >= out[1].n => Len(out[1].result) = out[1].n)

\* C2 amended: for every n >= 0 the list has at most n titles, and exactly n
\* titles when the two lists together supply at least n distinct titles.
C2_BoundedLength ==
    Returned /\ out[1].n >= 0
       => /\ Len(out[1].result) <= out[1].n
          /\ (Supplied >= out[1].n => Len(out[1].result) = out[1].n)

\* C2 witness: more than n >= 1 distinct titles were supplied and n were returned
C2_Witness ==
    /\ Returned
    /\ out[1].n >= 1
    /\ Supplied > out[1].n
    /\ Len(out[1].result) = out[1].n

\* C14: for every user_id, seed_title and n, recommend returns an empty list
\* only if both the content-based list and the collaborative list are empty.
C14_EmptyOnlyIfBothEmpty ==
    Returned /\ out[1].result = <<>>
       => out[1].content_recs = <<>> /\ out[1].collaborative_recs = <<>>

\* C3: for a user unknown to the factor model and a seed present in the text
\* index recommend returns exactly the content-based list; for a seed absent
\* from the text index it returns exactly the collaborative list (empty when
\* the user is unknown too).
C3_GracefulDegradation ==
    Returned =>
       /\ (~UserKnown /\ SeedKnown => out[1].result = out[1].content_recs)
       /\ (~SeedKnown => out[1].result = out[1].collaborative_recs)
       /\ (~SeedKnown /\ ~UserKnown => out[1].result = <<>>)

\* every game of the factor model has a row in the games table
RatedGamesInCatalog ==
    DOMAIN rec.game_mapper[1] \subseteq {rec.games_df[k].gameId : k \in 1..Len(rec.games_df)}

\* the title of the catalog row of a game
TitleOfGame(gid) ==
    rec.games_df[CHOOSE k \in 1..Len(rec.games_df) : rec.games_df[k].gameId = gid].title

\* C4: for a known user the collaborative list is the n unrated items with the
\* highest predicted score, in descending order of predicted score (stated for
\* tables in which every rated game has a catalog row).
C4_TopNDescending ==
    Returned /\ UserKnown /\ RatedGamesInCatalog =>
       LET top == TopGameIds(rec, out[1].user_id, out[1].n)
       IN /\ Range(top) \cap RatedGames(rec, out[1].user_id) = {}
          /\ out[1].collaborative_recs = [k \in 1..Len(top) |-> TitleOfGame(top[k])]

\* C5: for every seed present in the text index and every n >= 1, the
\* content-based list does not contain the seed's own title.
C5_SelfExclusion ==
    Returned /\ SeedKnown /\ out[1].n >= 1
       => out[1].seed_title \notin Range(out[1].content_recs)

(* -------------------------- claims about fit -------------------------- *)
\* the factor-model state of an instance
FactorState(self) ==
    <<self.nmf_model, self.user_mapper, self.game_mapper, self.game_inv_mapper,
      self.user_item_matrix>>

\* the text-index state of an instance
TextIndexState(self) ==
    <<self.content_recommender.tfidf_matrix, self.content_recommender.game_indices>>

\* C11: fit(refit_content=True, refit_nmf=False) leaves nmf_model, user_mapper,
\* game_mapper, game_inv_mapper and user_item_matrix unchanged, and
\* fit(refit_content=False, refit_nmf=True) leaves tfidf_matrix and
\* game_indices unchanged.
C11_IndependentRefit ==
    out # None =>
       /\ (out[1].refit_content /\ ~out[1].refit_nmf
             => FactorState(rec) = FactorState(out[1].before))
       /\ (~out[1].refit_content /\ out[1].refit_nmf
             => TextIndexState(rec) = TextIndexState(out[1].before))

\* C11 witness: a content-only refit of an instance whose factor model was
\* fitted before, the text index having changed
C11_Witness ==
    /\ out # None
    /\ out[1].refit_content /\ ~out[1].refit_nmf
    /\ out[1].before.nmf_model # None
    /\ out[1].before.nmf_model # Some(UnfittedNmf)
    /\ TextIndexState(rec) # TextIndexState(out[1].before)

(* ----------------------- claims about save/load ----------------------- *)
\* C10: the instance load returns after r.save gives, for every (user_id,
\* seed_title, n), the same ordered list of titles from recommend as r does.
C10_RoundTrip ==
    out_loaded # None =>
       /\ out_loaded[1].raised = out[1].raised
       /\ out_loaded[1].result = out[1].result

\* C10 witness: a probe answered by both instances from both sub-systems
C10_Witness ==
    /\ out_loaded # None
    /\ out_loaded[1].content_recs # <<>>
    /\ out_loaded[1].collaborative_recs # <<>>
    /\ Len(out_loaded[1].result) >= 2

(* --------------------------- the job table ---------------------------- *)
\* Job(type=..., status=PENDING), progress 0 by the column default
Job(type) ==
    [type |-> type, status |-> "pending", progress |-> 0, error_message |-> None]

\* update_job(db, job_id, **kwargs) for the rows the callers below change; a
\* job that is not in the table is left alone
update_job(table, job_id, row) ==
    IF table[job_id] = None THEN table ELSE [table EXCEPT ![job_id] = Some(row)]

mark_job_running(table, job_id) ==
    IF table[job_id] = None THEN table
    ELSE update_job(table, job_id, [table[job_id][1] EXCEPT !.status = "running"])

mark_job_completed(table, job_id) ==
    IF table[job_id] = None THEN table
    ELSE update_job(table, job_id,
            [table[job_id][1] EXCEPT !.status = "completed", !.progress = 100])

mark_job_failed(table, job_id, error_message) ==
    IF table[job_id] = None THEN table
    ELSE update_job(table, job_id,
            [table[job_id][1] EXCEPT !.status = "failed",
                                     !.error_message = Some(error_message),
                                     !.progress = 0])

\* update_job_progress(db, job_id, progress), its commit succeeding
update_job_progress(table, job_id, progress) ==
    IF table[job_id] = None THEN table
    ELSE [table EXCEPT ![job_id] = Some([@[1] EXCEPT !.progress = Min(progress, 100)])]

(* --------------------------- serving layer ---------------------------- *)
\* the thread startup_event hands initialize_model to, and one background
\* thread per job, named by the job's id
StartupThread == 0
JobIds == 1..MaxJobs
Threads == {StartupThread} \cup JobIds

\* data/games_prepared.csv.gz as prepare_steam_data_optimized writes it
GamesOut ==
    << [gameId |-> 1, title |-> "A", genres |-> "rpg"],
       [gameId |-> 2, title |-> "B", genres |-> "rpg"] >>

\* data/ratings_prepared.csv.gz: no recommendation rows at all, or one
RatingsOuts == { <<>>, <<[userId |-> 1, gameId |-> 1, rating |-> 25]>> }

\* NMF(random_state=42).fit(matrix): a function of the matrix
NmfFit(matrix) == CHOOSE nmf \in NmfModels(matrix) : TRUE

\* an instance constructed from the two tables and fitted in full
Trained(games, ratings) ==
    Fit(HybridRecommender(games, ratings), TRUE, TRUE,
        NmfFit(UserItemMatrix(ratings, Unique(ratings, "userId"),
                              Unique(ratings, "gameId"))))

\* what the disk may hold when the process starts: models/recommender.pkl
\* absent, unreadable (it exists, joblib.load raises) or written by an earlier
\* save; the prepared data files present, or only the raw data, or neither
FilesAtStart ==
    {f \in [model_exists : BOOLEAN,
            model_data : {None} \cup {Some(Dump(Trained(GamesOut, r))) :
                                        r \in RatingsOuts \ {<<>>}},
            prepared : BOOLEAN, raw : BOOLEAN, ratings : RatingsOuts] :
        /\ f.model_data # None => f.model_exists
        /\ f.prepared => f.raw}

\* initialize_model's arguments: startup passes the defaults, a training job
\* refits both parts
Refit(t) == t # StartupThread

\* args: the arguments a background task was queued with besides the job id
NoThread == [pc |-> "none", self |-> None, before |-> None, error |-> "", args |-> None]

InitServing ==
    /\ up = FALSE /\ restarts = 0
    /\ app_state_recommender = None
    /\ instances = [i \in Threads |-> None]
    /\ files \in FilesAtStart
    /\ jobs = [j \in JobIds |-> None]
    /\ threads = [t \in Threads |-> NoThread]
    /\ hist = [persisted |-> {}, assigned_by |-> None]
    /\ response = None
    /\ rec = None /\ out = None
    /\ artifact = None /\ loaded = None /\ out_loaded = None
    /\ ev = <<>>

notServing == <<rec, out, artifact, loaded, out_loaded, ev>>

\* startup_event whose sweep does not look at the status of the jobs
StartupEventSweepingAll ==
    /\ ~up
    /\ up' = TRUE
    /\ app_state_recommender' = None
    /\ jobs' = [j \in JobIds |->
                  IF jobs[j] # None
                  THEN Some([jobs[j][1] EXCEPT
                               !.status = "failed",
                               !.error_message =
                                  Some("App crashed or restarted while this job was running")])
                  ELSE jobs[j]]
    /\ threads' = [threads EXCEPT ![StartupThread] = [NoThread EXCEPT !.pc = "init"]]
    /\ hist' = [hist EXCEPT !.assigned_by = None]
    /\ UNCHANGED <<restarts, instances, files, response, notServing>>

\* startup_event: the handle is reset, every PENDING or RUNNING job of the table
\* is marked FAILED, and initialize_model() is handed to a thread
StartupEvent ==
    /\ ~up
    /\ up' = TRUE
    /\ app_state_recommender' = None
    /\ jobs' = [j \in JobIds |->
                  IF jobs[j] # None /\ jobs[j][1].status \in {"running", "pending"}
                  THEN Some([jobs[j][1] EXCEPT
                               !.status = "failed",
                               !.error_message =
                                  Some("App crashed or restarted while this job was running")])
                  ELSE jobs[j]]
    /\ threads' = [threads EXCEPT ![StartupThread] = [NoThread EXCEPT !.pc = "init"]]
    /\ hist' = [hist EXCEPT !.assigned_by = None]
    /\ UNCHANGED <<restarts, instances, files, response, notServing>>

\* POST /train: create_job, then the handler is queued as a background task
TrainModel ==
    /\ up
    /\ \E j \in JobIds :
         /\ threads[j].pc = "none"
         /\ \A k \in JobIds : k < j => threads[k].pc # "none"
         /\ jobs' = [jobs EXCEPT ![j] = Some(Job("training"))]
         /\ threads' = [threads EXCEPT ![j].pc = "queued"]
    /\ UNCHANGED <<up, restarts, app_state_recommender, instances, files, hist,
                   response, notServing>>

\* run_training_job up to its call of initialize_model: mark_job_running
RunTrainingJob(j) ==
    /\ threads[j].pc = "queued" /\ threads[j].args = None
    /\ jobs' = mark_job_running(jobs, j)
    /\ threads' = [threads EXCEPT ![j].pc = "init"]
    /\ UNCHANGED <<up, restarts, app_state_recommender, instances, files, hist,
                   response, notServing>>

\* initialize_model, the model file exists and nothing is to be refitted:
\* app.state.recommender = HybridRecommender.load(MODEL_PATH); return
LoadModel(t) ==
    /\ threads[t].pc = "init"
    /\ files.model_exists /\ ~Refit(t)
    /\ IF files.model_data # None
       THEN /\ instances' = [instances EXCEPT ![t] = Some(Load(files.model_data[1]))]
            /\ app_state_recommender' = Some(t)
            /\ hist' = [persisted |-> hist.persisted \cup {t}, assigned_by |-> Some(t)]
            /\ threads' = [threads EXCEPT ![t].pc = "returned",
                                          ![t].before = app_state_recommender]
       ELSE /\ threads' = [threads EXCEPT ![t].pc = "raised",
                                          ![t].before = app_state_recommender,
                                          ![t].error = "UnpicklingError"]
            /\ UNCHANGED <<instances, app_state_recommender, hist>>
    /\ UNCHANGED <<up, restarts, files, jobs, response, notServing>>

\* initialize_model otherwise: the data files are prepared when one is missing,
\* then app.state.recommender = HybridRecommender(GAMES_PATH, RATINGS_PATH)
Construct(t) ==
    /\ threads[t].pc = "init"
    /\ ~(files.model_exists /\ ~Refit(t))
    /\ IF ~files.prepared /\ ~files.raw
       THEN /\ threads' = [threads EXCEPT ![t].pc = "raised",
                                          ![t].before = app_state_recommender,
                                          ![t].error = "FileNotFoundError"]
            /\ UNCHANGED <<instances, app_state_recommender, hist, files>>
       ELSE /\ files' = [files EXCEPT !.prepared = TRUE]
            /\ instances' = [instances EXCEPT
                               ![t] = Some(HybridRecommender(GamesOut, files.ratings))]
            /\ app_state_recommender' = Some(t)
            /\ hist' = [persisted |-> hist.persisted \ {t}, assigned_by |-> Some(t)]
            /\ threads' = [threads EXCEPT ![t].pc = "constructed",
                                          ![t].before = app_state_recommender]
    /\ UNCHANGED <<up, restarts, jobs, response, notServing>>

\* app.state.recommender.fit(...): the handle is read, and fit's content part
\* runs on the instance it refers to
FitContent(t) ==
    /\ threads[t].pc = "constructed"
    /\ LET self == app_state_recommender[1]
           obj == instances[self][1]
       IN /\ instances' = [instances EXCEPT
                             ![self] = Some(Fit(obj, Refit(t), FALSE, None))]
          /\ threads' = IF FitRaisesInContent(obj, Refit(t))
                        THEN [threads EXCEPT ![t].pc = "raised",
                                             ![t].error = "ValueError",
                                             ![t].self = Some(self)]
                        ELSE [threads EXCEPT ![t].pc = "fitting",
                                             ![t].self = Some(self)]
          /\ hist' = [hist EXCEPT !.persisted = @ \ {self}]
    /\ UNCHANGED <<up, restarts, app_state_recommender, files, jobs, response,
                   notServing>>

\* the factor part of the same fit call; NMF.fit raises ValueError on a
\* matrix with no rows, the factor attributes being assigned already
FitNmf(t) ==
    /\ threads[t].pc = "fitting"
    /\ LET self == threads[t].self[1]
           obj == instances[self][1]
       IN IF Refit(t) /\ obj.ratings_df = <<>>
          THEN /\ threads' = [threads EXCEPT ![t].pc = "raised",
                                             ![t].error = "ValueError"]
               /\ instances' = [instances EXCEPT
                                  ![self] = Some(Fit(obj, FALSE, TRUE, UnfittedNmf))]
          ELSE /\ instances' = [instances EXCEPT
                                  ![self] = Some(Fit(obj, FALSE, Refit(t),
                                       NmfFit(UserItemMatrix(obj.ratings_df,
                                                  Unique(obj.ratings_df, "userId"),
                                                  Unique(obj.ratings_df, "gameId")))))]
               /\ threads' = [threads EXCEPT ![t].pc = "fitted"]
    /\ UNCHANGED <<up, restarts, app_state_recommender, files, jobs, hist,
                   response, notServing>>

\* app.state.recommender.save(MODEL_PATH): the handle is read again; save raises
\* on an instance whose content part was never fitted, and joblib.dump may fail
SaveModel(t) ==
    /\ threads[t].pc = "fitted"
    /\ LET self == app_state_recommender[1]
           obj == instances[self][1]
       IN IF SaveRaises(obj)
          THEN /\ threads' = [threads EXCEPT ![t].pc = "raised",
                                             ![t].error = "AttributeError"]
               /\ UNCHANGED <<files, hist>>
          ELSE \E written \in BOOLEAN :
                  IF written
                  THEN /\ files' = [files EXCEPT !.model_exists = TRUE,
                                                 !.model_data = Some(Dump(obj))]
                       /\ hist' = [hist EXCEPT !.persisted = @ \cup {self}]
                       /\ threads' = [threads EXCEPT ![t].pc = "returned"]
                  ELSE /\ threads' = [threads EXCEPT ![t].pc = "raised",
                                                     ![t].error = "OSError"]
                       /\ UNCHANGED <<files, hist>>
    /\ UNCHANGED <<up, restarts, app_state_recommender, instances, jobs, response,
                   notServing>>

\* run_training_job after initialize_model returned: mark_job_completed
JobCompleted(j) ==
    /\ threads[j].pc = "returned"
    /\ jobs' = mark_job_completed(jobs, j)
    /\ threads' = [threads EXCEPT ![j].pc = "done"]
    /\ UNCHANGED <<up, restarts, app_state_recommender, instances, files, hist,
                   response, notServing>>

\* an except branch that swallows the exception without mark_job_failed
JobFailedUnrecorded(j) ==
    /\ threads[j].pc = "raised"
    /\ threads' = [threads EXCEPT ![j].pc = "done"]
    /\ UNCHANGED <<up, restarts, app_state_recommender, instances, files, hist,
                   response, notServing, jobs>>

\* run_training_job's except branch: mark_job_failed(db, job_id, str(e))
JobFailed(j) ==
    /\ threads[j].pc = "raised"
    /\ jobs' = mark_job_failed(jobs, j, threads[j].error)
    /\ threads' = [threads EXCEPT ![j].pc = "done"]
    /\ UNCHANGED <<up, restarts, app_state_recommender, instances, files, hist,
                   response, notServing>>

\* the queries of GET /recommend: one for a rated user and a catalog title, and
\* one with the endpoint's default seed_title
Requests ==
    {[user_id |-> 1, seed_title |-> "A", n |-> 1],
     [user_id |-> 2, seed_title |-> "", n |-> MaxN]}

\* GET /recommend behind require_model_loaded: 503 while the handle is None,
\* otherwise recommend on the instance the handle refers to (an exception of
\* the handler is answered with 500)
GetRecommendations(user_id, seed_title, n) ==
    /\ up
    /\ response' =
          IF app_state_recommender = None THEN Some([status_code |-> 503])
          ELSE LET obj == instances[app_state_recommender[1]][1]
               IN IF RecommendRaises(obj) THEN Some([status_code |-> 500])
                  ELSE Some([status_code |-> 200,
                             recommendations |-> Recommend(obj, user_id, seed_title, n)])
    /\ UNCHANGED <<up, restarts, app_state_recommender, instances, files, jobs,
                   threads, hist, notServing>>

\* the process dies and is started again: its objects and threads are gone,
\* the files and the jobs table stay
Crash ==
    /\ up /\ restarts < MaxRestarts
    /\ up' = FALSE
    /\ restarts' = restarts + 1
    /\ app_state_recommender' = None
    /\ instances' = [i \in Threads |-> None]
    /\ threads' = [t \in Threads |->
                     IF t = StartupThread \/ threads[t].pc = "none"
                     THEN NoThread ELSE [NoThread EXCEPT !.pc = "dead"]]
    /\ hist' = [persisted |-> {}, assigned_by |-> None]
    /\ response' = None
    /\ UNCHANGED <<files, jobs, notServing>>

Next ==
    \/ StartupEvent
    \/ TrainModel
    \/ \E j \in JobIds : RunTrainingJob(j)
    \/ \E t \in Threads : LoadModel(t)
    \/ \E t \in Threads : Construct(t)
    \/ \E t \in Threads : FitContent(t)
    \/ \E t \in Threads : FitNmf(t)
    \/ \E t \in Threads : SaveModel(t)
    \/ \E j \in JobIds : JobCompleted(j)
    \/ \E j \in JobIds : JobFailed(j)
    \/ \E q \in Requests : GetRecommendations(q.user_id, q.seed_title, q.n)
    \/ Crash

Spec == InitServing /\ [][Next]_vars

(* -------------------- claims about the serving layer ------------------ *)
\* nothing of the instance was fitted
Unfitted(obj) == obj.content_recommender.tfidf_matrix = None /\ obj.nmf_model = None

\* some thread is inside fit on instance i
FitInProgress(i) ==
    \E t \in Threads : threads[t].pc = "fitting" /\ threads[t].self = Some(i)

\* C6: whenever app.state.recommender is not None, the instance it refers to
\* has completed fit and save (or load): it is not unfitted, no fit is in
\* progress on it, and it was saved or loaded as it is.
C6_OnlyReadyInstanceVisible ==
    app_state_recommender # None =>
       LET i == app_state_recommender[1]
       IN /\ ~Unfitted(instances[i][1])
          /\ ~FitInProgress(i)
          /\ i \in hist.persisted

\* C7: after initialize_model has failed in a thread that found a fitted and
\* saved (or loaded) instance being served when it was called,
\* app.state.recommender still refers to that instance (unless a later
\* assignment by another thread has replaced it).
C7_FailureKeepsHandle ==
    \A t \in Threads :
       /\ threads[t].pc = "raised"
       /\ threads[t].before # None
       /\ threads[t].before[1] \in hist.persisted
       /\ hist.assigned_by = Some(t)
       => app_state_recommender = threads[t].before

(* ----------------------------- Evaluator ------------------------------ *)
\* generate_all_recommendations' default n, which run_evaluation_job keeps
DefaultN == 10
\* start_progress and progress_range as run_evaluation_job passes them
StartProgress == 10
ProgressRange == 50
\* a rating of at least 2.5 (in tenths) marks a liked game
LikeThreshold == 25

\* catalogs of distinct titles; the ratings may name a game with no catalog row
EvalCatalogs ==
    {g \in Catalogs : \A i \in 1..Len(g) : g[i].genres = "rpg" /\ TitleNo[g[i].title] = i}

\* the ratings table as the prepared file holds it: one row per review, so a
\* (userId, gameId) pair may have more than one row; rows ordered by user and
\* then game, the first row user 1's
RatingsRows(values) ==
    UNION {{r \in [1..len -> [userId : UserIds, gameId : GameIds, rating : values]] :
              /\ len > 0 => r[1].userId = 1
              /\ \A i \in 1..(len - 1) :
                    \/ r[i].userId < r[i + 1].userId
                    \/ (r[i].userId = r[i + 1].userId /\ r[i].gameId <= r[i + 1].gameId)}
           : len \in 0..MaxRatings}

\* the instance app.state.recommender may refer to when POST /evaluate is
\* accepted: constructed only, or fitted (without a factor model when NMF had
\* no rows to fit)
EvalRecommenders ==
    UNION {{HybridRecommender(g, r),
            IF r = <<>> THEN Fit(HybridRecommender(g, r), TRUE, FALSE, None)
            ELSE Trained(g, r)}
           : g \in EvalCatalogs, r \in RatingsRows(RatingValues)}

\* rng.choice(unique_users, size=min(max_users, len(unique_users)), replace=False)
UserSamples(ratings, max_users) ==
    LET unique_users == Unique(ratings, "userId")
        size == Min(max_users, Len(unique_users))
    IN {s \in [1..size -> Range(unique_users)] :
          \A a, b \in 1..size : a # b => s[a] # s[b]}

\* the gameIds of the user's rows with rating >= 2.5
LikedGames(ratings, user_id) ==
    {ratings[k].gameId : k \in {x \in 1..Len(ratings) :
        ratings[x].userId = user_id /\ ratings[x].rating >= LikeThreshold}}

\* games_df.loc[games_df["gameId"] == game_id, "title"]: the titles of the rows
TitlesOf(games, game_id) ==
    LET rows == {k \in 1..Len(games) : games[k].gameId = game_id}
        ks == FilterSeq([k \in 1..Len(games) |-> k], rows)
    IN [k \in 1..Len(ks) |-> games[ks[k]].title]

\* start_progress + int((i / len(user_sample)) * progress_range)
ProgressPercent(i, len) == StartProgress + ((i * ProgressRange) \div len)

\* a quotient of two integers, kept unreduced
Frac(num, den) == [num |-> num, den |-> den]
FracEq(a, b) == a.num * b.den = b.num * a.den
FracLeq(a, b) == a.num * b.den <= b.num * a.den

RECURSIVE SumOf(_, _)
SumOf(f, S) ==
    IF S = {} THEN 0
    ELSE LET x == CHOOSE x \in S : TRUE IN f[x] + SumOf(f, S \ {x})

RECURSIVE Product(_)
Product(a) == IF a = <<>> THEN 1 ELSE a[1] * Product(Tail(a))

RECURSIVE Concat(_, _)
Concat(f, keys) ==
    IF keys = <<>> THEN <<>> ELSE f[keys[1]] \o Concat(f, Tail(keys))

\* the keys of a dict whose keys are integers, in ascending order
SortedKeys(f) ==
    LET S == DOMAIN f
    IN [k \in 1..Cardinality(S) |->
          CHOOSE x \in S : Cardinality({y \in S : y < x}) = k - 1]

\* games_df.drop_duplicates(subset="title"): the first row of every title
GamesUnique(games) ==
    LET firsts == {k \in 1..Len(games) :
                     \A j \in 1..(k - 1) : games[j].title # games[k].title}
        ks == FilterSeq([k \in 1..Len(games) |-> k], firsts)
    IN [k \in 1..Len(ks) |-> games[ks[k]]]

\* self.title_to_id.get(title, -1)
TitleToId(games, title) ==
    LET gu == GamesUnique(games)
        hits == {k \in 1..Len(gu) : gu[k].title = title}
    IN IF hits = {} THEN 0 - 1 ELSE gu[CHOOSE k \in hits : TRUE].gameId

\* self.all_game_ids: the keys of gameid_to_title
AllGameIds(games) ==
    LET gu == GamesUnique(games)
    IN DictFromKeys([k \in 1..Len(gu) |-> gu[k].gameId])

\* self.gameid_to_idx.get(game_id, -1)
GameIdToIdx(games, game_id) ==
    LET ids == AllGameIds(games)
    IN IF game_id \in Range(ids)
       THEN (CHOOSE k \in 1..Len(ids) : ids[k] = game_id) - 1
       ELSE 0 - 1

\* rating_counts of fit_recommender: the number of rating rows of a game
RatingCount(ratings, game_id) ==
    Cardinality({k \in 1..Len(ratings) : ratings[k].gameId = game_id})

\* num_users of fit_recommender
NumUsers(ratings) == Len(Unique(ratings, "userId"))

\* the row of liked_matrix of a user: the indices of the liked games that have
\* an index
LikedRow(games, ratings, user_id) ==
    {GameIdToIdx(games, g) : g \in {x \in LikedGames(ratings, user_id) :
                                      GameIdToIdx(games, x) >= 0}}

\* the row of rec_matrix of a user: np.zeros(k, dtype=int) with the indices of
\* the first k recommended titles written over its head
RecRow(games, recs, k) ==
    LET head == SliceTo(recs, k)
    IN [j \in 1..k |->
          IF j <= Len(head) THEN GameIdToIdx(games, TitleToId(games, head[j]))
          ELSE 0]

\* Evaluator.calculate_precision_at_k(all_recommendations, k), k >= 1
calculate_precision_at_k(games, ratings, all_recommendations, k) ==
    LET row == [u \in DOMAIN all_recommendations |->
                  RecRow(games, all_recommendations[u], k)]
        counted == {u \in DOMAIN all_recommendations :
                      \E j \in 1..k : row[u][j] >= 0}
        hits == [u \in counted |->
                   Cardinality({j \in 1..k :
                      row[u][j] >= 0 /\ row[u][j] \in LikedRow(games, ratings, u)})]
    IN IF counted = {} THEN Frac(0, 1)
       ELSE Frac(SumOf(hits, counted), k * Cardinality(counted))

\* Evaluator.calculate_coverage(all_recommendations)
calculate_coverage(games, all_recommendations) ==
    LET all_titles == UNION {Range(all_recommendations[u]) :
                               u \in DOMAIN all_recommendations}
        nunique == Cardinality({games[k].title : k \in 1..Len(games)})
    IN IF DOMAIN all_recommendations = {} THEN Frac(0, 1)
       ELSE Frac(Cardinality(all_titles), Max(1, nunique))

\* Evaluator.calculate_novelty(all_recommendations): the mean of
\* -log2(rating_count / num_users) over the recommended titles of positive
\* popularity, kept as the product of the counts, the product of the divisors
\* and the number of terms; 0.0 when there is no term
calculate_novelty(games, ratings, all_recommendations) ==
    LET titles == Concat(all_recommendations, SortedKeys(all_recommendations))
        counts == [j \in 1..Len(titles) |->
                     RatingCount(ratings, TitleToId(games, titles[j]))]
        mask == FilterSeq([j \in 1..Len(titles) |-> j],
                          {j \in 1..Len(titles) : counts[j] > 0})
    IN [counts |-> Product([j \in 1..Len(mask) |-> counts[mask[j]]]),
        users |-> Product([j \in 1..Len(mask) |-> NumUsers(ratings)]),
        terms |-> Len(mask)]

\* the title lists a recommendation map may hold for a user
MaxK == 2
TitleLists ==
    UNION {{s \in [1..len -> Titles] : NoRepeat(s)} : len \in 0..MaxK}

\* recommendation maps: a list of titles for some of the users
RecommendationMaps ==
    UNION {[S -> TitleLists] : S \in SUBSET UserIds}

\* the results of run_evaluation_job for one k
Results(games, ratings, all_recommendations, k) ==
    [k |-> k,
     precision |-> calculate_precision_at_k(games, ratings, all_recommendations, k),
     coverage |-> calculate_coverage(games, all_recommendations),
     novelty |-> calculate_novelty(games, ratings, all_recommendations)]

\* the frame of generate_all_recommendations(job_id, max_users, ...) when the
\* loop is entered; failed and progress_failed record what raised
Frame(job_id, progress_step, user_sample) ==
    [pc |-> "for", job_id |-> job_id, progress_step |-> progress_step,
     user_sample |-> user_sample, i |-> 0, seed_game |-> None,
     all_recommendations |-> <<>>, reports |-> <<>>, results |-> None,
     failed |-> {}, progress_failed |-> FALSE, error |-> ""]

InitEval ==
    /\ rec \in EvalRecommenders
    /\ \E job_id \in {0, 1}, progress_step \in 0..MaxStep, max_users \in 1..MaxUsers :
          \E user_sample \in UserSamples(rec.ratings_df, max_users) :
             ev = Frame(job_id, progress_step, user_sample)
    /\ jobs = [j \in JobIds |->
                 IF j = 1
                 THEN Some([Job("evaluation") EXCEPT !.status = "running",
                                                     !.progress = StartProgress])
                 ELSE None]
    /\ out = None
    /\ artifact = None /\ loaded = None /\ out_loaded = None
    /\ NotServing

notEval == <<rec, out, artifact, loaded, out_loaded, servingVars>>

\* for i, user_id in enumerate(user_sample, start=1); after the last user the
\* finally clause closes the session and the map is returned
ForNext ==
    /\ ev.pc = "for"
    /\ ev' = IF ev.i < Len(ev.user_sample)
             THEN [ev EXCEPT !.i = @ + 1, !.pc = "seed"]
             ELSE [ev EXCEPT !.pc = "returned"]
    /\ UNCHANGED <<jobs, notEval>>

\* the seed: the title of one of the user's liked games (.iloc[0] raises
\* IndexError when that game has no catalog row), or of any catalog row when
\* the user likes nothing
ChooseSeed ==
    /\ ev.pc = "seed"
    /\ LET user_id == ev.user_sample[ev.i]
           liked == LikedGames(rec.ratings_df, user_id)
       IN IF liked # {}
          THEN \E seed_game_id \in liked :
                  LET titles == TitlesOf(rec.games_df, seed_game_id)
                  IN IF titles = <<>>
                     THEN ev' = [ev EXCEPT !.pc = "raised", !.error = "IndexError",
                                           !.failed = @ \cup {user_id}]
                     ELSE ev' = [ev EXCEPT !.pc = "recommend",
                                           !.seed_game = Some(titles[1])]
          ELSE \E k \in 1..Len(rec.games_df) :
                  ev' = [ev EXCEPT !.pc = "recommend",
                                   !.seed_game = Some(rec.games_df[k].title)]
    /\ UNCHANGED <<jobs, notEval>>

\* recs = self.recommender.recommend(user_id, seed_game, n);
\* all_recommendations[user_id] = recs if recs else []
RecommendFor ==
    /\ ev.pc = "recommend"
    /\ LET user_id == ev.user_sample[ev.i]
       IN IF RecommendRaises(rec)
          THEN ev' = [ev EXCEPT !.pc = "raised", !.error = "AttributeError",
                                !.failed = @ \cup {user_id}]
          ELSE LET recs == Recommend(rec, user_id, ev.seed_game[1], DefaultN)
               IN ev' = [ev EXCEPT
                           !.pc = "progress",
                           !.all_recommendations =
                              [u \in DOMAIN @ \cup {user_id} |->
                                 IF u = user_id THEN recs ELSE @[u]]]
    /\ UNCHANGED <<jobs, notEval>>

\* if job_id and (i % progress_step == 0 or i == len(user_sample)):
\*     update_job_progress(db, job_id, progress_percent)
\* i % 0 raises ZeroDivisionError; the commit of update_job_progress may fail
ReportProgress ==
    /\ ev.pc = "progress"
    /\ LET len == Len(ev.user_sample)
       IN IF ev.job_id = 0
          THEN ev' = [ev EXCEPT !.pc = "for"] /\ UNCHANGED jobs
          ELSE IF ev.progress_step = 0
          THEN ev' = [ev EXCEPT !.pc = "raised", !.error = "ZeroDivisionError"]
               /\ UNCHANGED jobs
          ELSE IF ev.i % ev.progress_step = 0 \/ ev.i = len
          THEN \E committed \in BOOLEAN :
                  IF committed
                  THEN /\ jobs' = update_job_progress(jobs, ev.job_id,
                                                      ProgressPercent(ev.i, len))
                       /\ ev' = [ev EXCEPT !.pc = "for",
                                    !.reports = Append(@, ProgressPercent(ev.i, len))]
                  ELSE /\ ev' = [ev EXCEPT !.pc = "raised",
                                           !.error = "OperationalError",
                                           !.progress_failed = TRUE]
                       /\ UNCHANGED jobs
          ELSE ev' = [ev EXCEPT !.pc = "for"] /\ UNCHANGED jobs
    /\ UNCHANGED notEval

\* the metric calls of run_evaluation_job on the returned map
CalculateMetrics(k) ==
    /\ ev.pc = "returned"
    /\ ev' = [ev EXCEPT !.pc = "measured",
                        !.results = Some(Results(rec.games_df, rec.ratings_df,
                                                 ev.all_recommendations, k))]
    /\ UNCHANGED <<jobs, notEval>>

NextEval ==
    \/ ForNext
    \/ ChooseSeed
    \/ RecommendFor
    \/ ReportProgress
    \/ \E k \in 1..MaxK : CalculateMetrics(k)

SpecEval == InitEval /\ [][NextEval]_vars

\* an Evaluator over a catalog and a ratings table, handed a recommendation map
InitMetrics ==
    /\ \E g \in EvalCatalogs, r \in RatingsTables(RatingValues) :
          rec = HybridRecommender(g, r)
    /\ \E m \in RecommendationMaps :
          ev = [Frame(0, 1, SortedKeys(m)) EXCEPT
                  !.pc = "returned", !.i = Cardinality(DOMAIN m),
                  !.all_recommendations = m]
    /\ out = None
    /\ artifact = None /\ loaded = None /\ out_loaded = None
    /\ NotServing /\ jobs = <<>>

NextMetrics == \E k \in 1..MaxK : CalculateMetrics(k)

SpecMetrics == InitMetrics /\ [][NextMetrics]_vars

(* ---------------------- claims about the evaluator -------------------- *)
\* the call returned a map with one entry for every sampled user
ReturnedForAll ==
    ev.pc = "returned" => DOMAIN ev.all_recommendations = Range(ev.user_sample)

\* C8: when seed selection or recommend has raised for a sampled user, the
\* batch is not aborted: the call returns a map with an entry for every sampled
\* user, the failing user's entry being the empty list.
C8_PerUserFailureIsolated ==
    ev.failed # {} =>
       /\ ev.pc # "raised"
       /\ ReturnedForAll
       /\ ev.pc = "returned" => \A u \in ev.failed : ev.all_recommendations[u] = <<>>

\* C9: when a progress report (update_job_progress) has failed, the evaluation
\* is not aborted: recommendations for all sampled users are returned.
C9_ProgressFailureTolerated ==
    ev.progress_failed => ev.pc # "raised" /\ ReturnedForAll

(* ------------------------ claims about the metrics -------------------- *)
\* the titles of the games a user rated >= 2.5
LikedTitles(games, ratings, user_id) ==
    {games[r].title : r \in {x \in 1..Len(games) :
                               games[x].gameId \in LikedGames(ratings, user_id)}}

\* precision@k as the claim defines it
ClaimedPrecision(games, ratings, all_recommendations, k) ==
    LET nonempty == {u \in DOMAIN all_recommendations : all_recommendations[u] # <<>>}
        hits == [u \in nonempty |->
                   LET head == SliceTo(all_recommendations[u], k)
                   IN Cardinality({j \in 1..Len(head) :
                         head[j] \in LikedTitles(games, ratings, u)})]
    IN IF nonempty = {} THEN Frac(0, 1)
       ELSE Frac(SumOf(hits, nonempty), k * Cardinality(nonempty))

\* C12: calculate_precision_at_k equals the mean, over the users with a
\* non-empty list only, of (number of the first k recommended titles that are
\* titles of games the user rated >= 2.5) / k; it is 0.0 when no user has a
\* non-empty list.
C12_PrecisionAtK ==
    ev.pc = "measured" =>
       FracEq(ev.results[1].precision,
              ClaimedPrecision(rec.games_df, rec.ratings_df, ev.all_recommendations, ev.results[1].k))

\* the value of calculate_novelty is >= 0: the mean of -log2(count / users) is
\* >= 0 exactly when the product of the counts is <= the product of the users
NoveltyNonNegative(novelty) == novelty.counts <= novelty.users

\* C13: for every ratings table, catalog and recommendation map produced by
\* the recommender, coverage and precision@k lie in [0,1] and novelty is >= 0;
\* all three are 0.0 when the recommendation map is empty.
C13_MetricBounds ==
    ev.pc = "measured" =>
       LET results == ev.results[1]
       IN /\ FracLeq(Frac(0, 1), results.coverage)
          /\ FracLeq(results.coverage, Frac(1, 1))
          /\ FracLeq(Frac(0, 1), results.precision)
          /\ FracLeq(results.precision, Frac(1, 1))
          /\ NoveltyNonNegative(results.novelty)
          /\ DOMAIN ev.all_recommendations = {} =>
                /\ results.coverage.num = 0
                /\ results.precision.num = 0
                /\ results.novelty.terms = 0

(* ------------------------- job life cycle ------------------------- *)
\* The handlers of api.py at the grain of their writes to the jobs table: a
\* call of initialize_model is taken whole (it never touches the table; its
\* steps are interleaved in Spec), and so is the loop of
\* generate_all_recommendations (its steps are those of SpecEval).

\* the max_users of POST /evaluate: below 100, and 100
EvaluateArgs == {1, 100}

\* the disk when the process first starts: no model file yet, the prepared data
\* present
FilesAtFirstStart == {f \in FilesAtStart : ~f.model_exists /\ f.prepared}

InitJobs ==
    /\ up = FALSE /\ restarts = 0
    /\ app_state_recommender = None
    /\ instances = [i \in Threads |-> None]
    /\ files \in FilesAtFirstStart
    /\ jobs = [j \in JobIds |-> None]
    /\ threads = [t \in Threads |-> NoThread]
    /\ hist = [persisted |-> {}, assigned_by |-> None]
    /\ response = None
    /\ rec = None /\ out = None
    /\ artifact = None /\ loaded = None /\ out_loaded = None
    /\ ev = <<>>

\* initialize_model(refit_content, refit_nmf), from its first line to its
\* return or its raise
InitializeModel(t) ==
    /\ threads[t].pc = "init"
    /\ IF files.model_exists /\ ~Refit(t)
       THEN IF files.model_data # None
            THEN /\ instances' = [instances EXCEPT ![t] = Some(Load(files.model_data[1]))]
                 /\ app_state_recommender' = Some(t)
                 /\ threads' = [threads EXCEPT ![t].pc = "returned"]
                 /\ UNCHANGED files
            ELSE /\ threads' = [threads EXCEPT ![t].pc = "raised",
                                               ![t].error = "UnpicklingError"]
                 /\ UNCHANGED <<instances, app_state_recommender, files>>
       ELSE IF ~files.prepared /\ ~files.raw
       THEN /\ threads' = [threads EXCEPT ![t].pc = "raised",
                                          ![t].error = "FileNotFoundError"]
            /\ UNCHANGED <<instances, app_state_recommender, files>>
       ELSE LET obj == HybridRecommender(GamesOut, files.ratings)
                nmf_raises == Refit(t) /\ files.ratings = <<>>
                fitted == IF FitRaisesInContent(obj, Refit(t)) THEN Fit(obj, TRUE, FALSE, None)
                          ELSE IF nmf_raises THEN Fit(obj, Refit(t), TRUE, UnfittedNmf)
                          ELSE Fit(obj, Refit(t), Refit(t),
                                   NmfFit(UserItemMatrix(obj.ratings_df,
                                              Unique(obj.ratings_df, "userId"),
                                              Unique(obj.ratings_df, "gameId"))))
            IN /\ instances' = [instances EXCEPT ![t] = Some(fitted)]
               /\ app_state_recommender' = Some(t)
               /\ IF FitRaisesInContent(obj, Refit(t)) \/ nmf_raises
                  THEN /\ threads' = [threads EXCEPT ![t].pc = "raised",
                                                     ![t].error = "ValueError"]
                       /\ files' = [files EXCEPT !.prepared = TRUE]
                  ELSE IF SaveRaises(fitted)
                  THEN /\ threads' = [threads EXCEPT ![t].pc = "raised",
                                                     ![t].error = "AttributeError"]
                       /\ files' = [files EXCEPT !.prepared = TRUE]
                  ELSE \E written \in BOOLEAN :
                          IF written
                          THEN /\ files' = [files EXCEPT !.prepared = TRUE,
                                                         !.model_exists = TRUE,
                                                         !.model_data = Some(Dump(fitted))]
                               /\ threads' = [threads EXCEPT ![t].pc = "returned"]
                          ELSE /\ files' = [files EXCEPT !.prepared = TRUE]
                               /\ threads' = [threads EXCEPT ![t].pc = "raised",
                                                             ![t].error = "OSError"]
    /\ UNCHANGED <<up, restarts, jobs, hist, response, notServing>>

\* POST /evaluate behind require_model_loaded: refused with 503 while the handle
\* is None, otherwise create_job and the handler queued with max_users
EvaluateModel(max_users) ==
    /\ up
    /\ app_state_recommender # None
    /\ \E j \in JobIds :
          /\ threads[j].pc = "none"
          /\ \A k \in JobIds : k < j => threads[k].pc # "none"
          /\ jobs' = [jobs EXCEPT ![j] = Some(Job("evaluation"))]
          /\ threads' = [threads EXCEPT ![j].pc = "queued",
                                        ![j].args = Some(max_users)]
    /\ UNCHANGED <<up, restarts, app_state_recommender, instances, files, hist,
                   response, notServing>>

\* run_evaluation_job up to generate_all_recommendations: mark_job_running,
\* Evaluator(app.state.recommender).fit_recommender(), update_job(progress=10)
RunEvaluationJob(j) ==
    /\ threads[j].pc = "queued" /\ threads[j].args # None
    /\ jobs' = update_job_progress(mark_job_running(jobs, j), j, StartProgress)
    /\ threads' = [threads EXCEPT ![j].pc = "generating",
                                  ![j].self = app_state_recommender]
    /\ UNCHANGED <<up, restarts, app_state_recommender, instances, files, hist,
                   response, notServing>>

\* generate_all_recommendations(job_id, max_users, start_progress=10,
\* progress_range=50, progress_step=int(max_users/100)): nothing to do without
\* users; otherwise recommend raises on an instance whose content part is not
\* fitted, i % 0 raises after the first user, and the last user's update
\* leaves start_progress + progress_range
GenerateAllRecommendations(j) ==
    /\ threads[j].pc = "generating"
    /\ LET obj == instances[threads[j].self[1]][1]
           max_users == threads[j].args[1]
           progress_step == max_users \div 100
       IN IF UserSamples(obj.ratings_df, max_users) = {<<>>}
          THEN /\ threads' = [threads EXCEPT ![j].pc = "measuring"]
               /\ UNCHANGED jobs
          ELSE IF RecommendRaises(obj)
          THEN /\ threads' = [threads EXCEPT ![j].pc = "raised",
                                             ![j].error = "AttributeError"]
               /\ UNCHANGED jobs
          ELSE IF progress_step = 0
          THEN /\ threads' = [threads EXCEPT ![j].pc = "raised",
                                             ![j].error = "ZeroDivisionError"]
               /\ UNCHANGED jobs
          ELSE /\ threads' = [threads EXCEPT ![j].pc = "measuring"]
               /\ jobs' = update_job_progress(jobs, j, StartProgress + ProgressRange)
    /\ UNCHANGED <<up, restarts, app_state_recommender, instances, files, hist,
                   response, notServing>>

\* the three metric calls of run_evaluation_job, each followed by
\* update_job_progress: 70, 80, 90
ReportMetrics(j) ==
    /\ threads[j].pc = "measuring"
    /\ jobs' = update_job_progress(jobs, j, 90)
    /\ threads' = [threads EXCEPT ![j].pc = "returned"]
    /\ UNCHANGED <<up, restarts, app_state_recommender, instances, files, hist,
                   response, notServing>>

\* DELETE /jobs/{job_id} without the check of the job's status
DeleteJobAnyStatus(job_id) ==
    /\ up
    /\ IF jobs[job_id] = None
       THEN /\ response' = Some([status_code |-> 404, job_id |-> job_id])
            /\ UNCHANGED jobs
       ELSE /\ jobs' = [jobs EXCEPT ![job_id] = None]
            /\ response' = Some([status_code |-> 200, job_id |-> job_id])
    /\ UNCHANGED <<up, restarts, app_state_recommender, instances, files, threads,
                   hist, notServing>>

\* DELETE /jobs/{job_id}: 404 without the row, 500 "Job not finished" unless the
\* job is COMPLETED or FAILED, otherwise the row is deleted
DeleteJob(job_id) ==
    /\ up
    /\ IF jobs[job_id] = None
       THEN /\ response' = Some([status_code |-> 404, job_id |-> job_id])
            /\ UNCHANGED jobs
       ELSE IF jobs[job_id][1].status \notin {"completed", "failed"}
       THEN /\ response' = Some([status_code |-> 500, job_id |-> job_id])
            /\ UNCHANGED jobs
       ELSE /\ jobs' = [jobs EXCEPT ![job_id] = None]
            /\ response' = Some([status_code |-> 200, job_id |-> job_id])
    /\ UNCHANGED <<up, restarts, app_state_recommender, instances, files, threads,
                   hist, notServing>>

\* the steps of the thread t
Run(t) ==
    \/ InitializeModel(t)
    \/ t \in JobIds /\ RunTrainingJob(t)
    \/ t \in JobIds /\ RunEvaluationJob(t)
    \/ t \in JobIds /\ GenerateAllRecommendations(t)
    \/ t \in JobIds /\ ReportMetrics(t)
    \/ t \in JobIds /\ JobCompleted(t)
    \/ t \in JobIds /\ JobFailed(t)

NextJobs ==
    \/ StartupEvent
    \/ TrainModel
    \/ \E max_users \in EvaluateArgs : EvaluateModel(max_users)
    \/ \E t \in Threads : Run(t)
    \/ \E j \in JobIds : DeleteJob(j)
    \/ Crash

SpecJobs == InitJobs /\ [][NextJobs]_vars

\* a thread of the pool that can take a step takes it, and a process that went
\* down is started again
SpecJobsLive ==
    /\ SpecJobs
    /\ WF_vars(StartupEvent)
    /\ \A t \in Threads : WF_vars(Run(t))

(* ---------------------- claims about the jobs ------------------------ *)
Finished == {"completed", "failed"}

\* the handler of job j has started: mark_job_running has been committed and no
\* final status yet
HandlerStarted(j) == jobs[j] # None /\ jobs[j][1].status = "running"

HasFinished(j) == jobs[j] # None /\ jobs[j][1].status \in Finished

\* the handler of job j went through its except branch with the row in place:
\* the row is FAILED and carries the exception's message
FailureRecorded(j) ==
    threads[j].pc = "done" /\ threads[j].error # "" /\ jobs[j] # None
       => /\ jobs[j][1].status = "failed"
          /\ jobs[j][1].error_message = Some(threads[j].error)

\* C15: every job whose background handler (run_training_job or
\* run_evaluation_job) has started eventually reaches COMPLETED or FAILED, and
\* when the fit or the evaluation raised, the job is FAILED with error_message
\* set to the exception's message.
C15_JobsFinish ==
    /\ \A j \in JobIds : HandlerStarted(j) ~> HasFinished(j)
    /\ [](\A j \in JobIds : FailureRecorded(j))

\* C15 witness: an evaluation raised ZeroDivisionError and its job is FAILED
\* with that message
C15_Witness ==
    \E j \in JobIds :
       /\ threads[j].pc = "done" /\ threads[j].error = "ZeroDivisionError"
       /\ jobs[j] # None
       /\ jobs[j][1].status = "failed"
       /\ jobs[j][1].error_message = Some("ZeroDivisionError")

\* one step of the status of job j
StatusStep(j) ==
    /\ jobs[j] = None /\ jobs'[j] # None => jobs'[j][1].status = "pending"
    /\ jobs[j] # None /\ jobs'[j] # None /\ jobs'[j][1].status # jobs[j][1].status
          => LET old == jobs[j][1].status
                 new == jobs'[j][1].status
             IN \/ old = "pending" /\ new = "running"
                \/ old = "running" /\ new \in Finished
                \/ old = "pending" /\ new = "failed" /\ ~up /\ up'

\* C18: a job's status only changes PENDING -> RUNNING -> COMPLETED or FAILED,
\* or from PENDING or RUNNING to FAILED by the startup sweep; the status of a
\* COMPLETED or FAILED job never changes again, under every interleaving of
\* handlers, progress updates and restarts.
C18_StatusTransitions == [][\A j \in JobIds : StatusStep(j)]_vars

\* C18 witness: after a restart one job is COMPLETED since before the restart
\* and another was marked FAILED by the sweep
C18_Witness ==
    /\ up /\ restarts >= 1
    /\ \E j, k \in JobIds :
          /\ jobs[j] # None /\ jobs[j][1].status = "completed"
          /\ threads[j].pc = "dead"
          /\ jobs[k] # None /\ jobs[k][1].status = "failed"
          /\ jobs[k][1].error_message =
                Some("App crashed or restarted while this job was running")

\* the handler of job j is queued or running
HandlerAlive(j) ==
    threads[j].pc \in {"queued", "init", "generating", "measuring", "returned", "raised"}

\* C19: delete_job removes a job only when it is COMPLETED or FAILED; the
\* delete of a PENDING or RUNNING job is rejected and leaves the table as it
\* was, so a handler that is queued or running always finds its job's row.
C19_DeleteOnlyFinished ==
    /\ [](\A j \in JobIds : HandlerAlive(j) => jobs[j] # None)
    /\ [][\A j \in JobIds :
             /\ jobs[j] # None /\ jobs'[j] = None => jobs[j][1].status \in Finished
             /\ (response' # response /\ response' = Some([status_code |-> 500, job_id |-> j]))
                   => jobs' = jobs]_vars

\* C19 witness: the delete of a running job was answered with 500 and the job
\* is still in the table, running
C19_Witness ==
    \E j \in JobIds :
       /\ response = Some([status_code |-> 500, job_id |-> j])
       /\ HandlerAlive(j)
       /\ jobs[j] # None /\ jobs[j][1].status = "running"

(* ------------- claims about the evaluator's progress and seeds -------- *)
\* an update is due after the i-th of len users: i is a multiple of
\* progress_step, or the last user
Due(i, len, progress_step) ==
    \/ i = len
    \/ IF progress_step = 0 THEN i = 0 ELSE i % progress_step = 0

\* the updates due after the first i users, in order
RECURSIVE DueReports(_, _, _)
DueReports(i, len, progress_step) ==
    IF i = 0 THEN <<>>
    ELSE IF Due(i, len, progress_step)
    THEN Append(DueReports(i - 1, len, progress_step), ProgressPercent(i, len))
    ELSE DueReports(i - 1, len, progress_step)

\* C16: with a job id and for every progress_step the caller passes, an update
\* is issued after the i-th user exactly when i is a multiple of progress_step
\* or the last sampled user; the reported values lie in
\* [start_progress, start_progress + progress_range], never decrease, and the
\* last one is start_progress + progress_range.
C16_ProgressCadence ==
    ev.job_id # 0 /\ ~ev.progress_failed =>
       LET len == Len(ev.user_sample)
       IN /\ ev.error # "ZeroDivisionError"
          /\ ev.pc \in {"for", "returned", "measured"}
                => ev.reports = DueReports(ev.i, len, ev.progress_step)
          /\ \A k \in 1..Len(ev.reports) :
                /\ ev.reports[k] >= StartProgress
                /\ ev.reports[k] <= StartProgress + ProgressRange
                /\ k > 1 => ev.reports[k - 1] <= ev.reports[k]
          /\ ev.pc = "returned" /\ len > 0
                => /\ ev.reports # <<>>
                   /\ ev.reports[Len(ev.reports)] = StartProgress + ProgressRange

\* C17: for each sampled user the seed is the title of one of the user's liked
\* games when the user has a rating >= 2.5, otherwise a title of the catalog; in
\* both cases seed selection does not raise, a liked game without a row in the
\* games table included.
C17_SeedSelection ==
    /\ ev.error # "IndexError"
    /\ ev.pc = "recommend"
          => LET user_id == ev.user_sample[ev.i]
             IN IF LikedGames(rec.ratings_df, user_id) # {}
                THEN ev.seed_game[1] \in LikedTitles(rec.games_df, rec.ratings_df, user_id)
                ELSE ev.seed_game[1] \in {rec.games_df[k].title : k \in 1..Len(rec.games_df)}

====
